---- MODULE Spec2Model ----
(***************************************************************************)
(* Model of the Seva service worker (src/sw.js): the store registry kept   *)
(* in CacheStorage, the install / activate lifecycle, the fetch handler    *)
(* with its three caching strategies and the background revalidation, the  *)
(* message commands and the periodic content update.                       *)
(*                                                                         *)
(* Strings the code inspects character by character (URLs, store names,    *)
(* file extensions) are kept in the state as TLA+ strings; Chars gives the *)
(* character sequence of each, and the parsing and matching functions      *)
(* (new URL, split/pop, toLowerCase, includes, startsWith) work on those   *)
(* sequences as the JavaScript does.                                       *)
(***************************************************************************)
EXTENDS Integers, Sequences, FiniteSets, TLC

\* ------------------------------------------------------------------
\* Bounds of the model
\* ------------------------------------------------------------------
\* fetch, message and periodicsync events delivered in one run of Spec
MaxEvents == 1
\* fetch, message and periodicsync events delivered in one run of SpecServe
MaxServed == 2

\* ------------------------------------------------------------------
\* Strings and their characters
\* ------------------------------------------------------------------
Strings ==
  {"seva-v2.1",
   "seva-cache-",
   "seva-cache-seva-v2.1",
   "seva-cache-seva-v2.0",
   "seva-cache-seva-v2.1-images",
   "seva-v1",
   "supabase.co",
   "https://seva.app",
   "/",
   "/index.html",
   "/manifest.json",
   "/site.webmanifest",
   "https://seva.app/",
   "https://seva.app/index.html",
   "https://seva.app/manifest.json",
   "https://seva.app/site.webmanifest",
   "https://cdn.tailwindcss.com",
   "https://cdn.tailwindcss.com/",
   "https://unpkg.com/leaflet@1.9.4/dist/leaflet.css",
   "https://unpkg.com/leaflet@1.9.4/dist/leaflet.js",
   "https://cdn.jsdelivr.net/npm/@supabase/supabase-js@2",
   "https://seva.app/logo.PNG",
   "https://seva.app/about.html",
   "https://seva.app/submit.json",
   "https://db.supabase.co/rest/items.json",
   "chrome-extension://abcdef/icon.png",
   "https://seva.app/data.api",
   "https://seva.app/donate",
   "http:",
   "https:",
   "GET",
   "navigate",
   "css",
   "js",
   "woff2",
   "woff",
   "ttf",
   "svg",
   "png",
   "jpg",
   "jpeg",
   "gif",
   "webp",
   "html",
   "json",
   "api"}

Chars(s) ==
  CASE s = "seva-v2.1" ->
         <<"s","e","v","a","-","v","2",".","1">>
    [] s = "seva-cache-" ->
         <<"s","e","v","a","-","c","a","c","h","e","-">>
    [] s = "seva-cache-seva-v2.1" ->
         <<"s","e","v","a","-","c","a","c","h","e","-","s","e","v","a","-","v","2",".","1">>
    [] s = "seva-cache-seva-v2.0" ->
         <<"s","e","v","a","-","c","a","c","h","e","-","s","e","v","a","-","v","2",".","0">>
    [] s = "seva-cache-seva-v2.1-images" ->
         <<"s","e","v","a","-","c","a","c","h","e","-","s","e","v","a","-","v","2",".","1","-","i","m","a","g","e","s">>
    [] s = "seva-v1" ->
         <<"s","e","v","a","-","v","1">>
    [] s = "supabase.co" ->
         <<"s","u","p","a","b","a","s","e",".","c","o">>
    [] s = "https://seva.app" ->
         <<"h","t","t","p","s",":","/","/","s","e","v","a",".","a","p","p">>
    [] s = "/" ->
         <<"/">>
    [] s = "/index.html" ->
         <<"/","i","n","d","e","x",".","h","t","m","l">>
    [] s = "/manifest.json" ->
         <<"/","m","a","n","i","f","e","s","t",".","j","s","o","n">>
    [] s = "/site.webmanifest" ->
         <<"/","s","i","t","e",".","w","e","b","m","a","n","i","f","e","s","t">>
    [] s = "https://seva.app/" ->
         <<"h","t","t","p","s",":","/","/","s","e","v","a",".","a","p","p","/">>
    [] s = "https://seva.app/index.html" ->
         <<"h","t","t","p","s",":","/","/","s","e","v","a",".","a","p","p","/","i","n","d","e","x",".","h","t","m","l">>
    [] s = "https://seva.app/manifest.json" ->
         <<"h","t","t","p","s",":","/","/","s","e","v","a",".","a","p","p","/","m","a","n","i","f","e","s","t",".","j","s","o","n">>
    [] s = "https://seva.app/site.webmanifest" ->
         <<"h","t","t","p","s",":","/","/","s","e","v","a",".","a","p","p","/","s","i","t","e",".","w","e","b","m","a","n","i","f","e","s","t">>
    [] s = "https://cdn.tailwindcss.com" ->
         <<"h","t","t","p","s",":","/","/","c","d","n",".","t","a","i","l","w","i","n","d","c","s","s",".","c","o","m">>
    [] s = "https://cdn.tailwindcss.com/" ->
         <<"h","t","t","p","s",":","/","/","c","d","n",".","t","a","i","l","w","i","n","d","c","s","s",".","c","o","m","/">>
    [] s = "https://unpkg.com/leaflet@1.9.4/dist/leaflet.css" ->
         <<"h","t","t","p","s",":","/","/","u","n","p","k","g",".","c","o","m","/","l","e","a","f","l","e","t","@","1",".","9",".","4","/","d","i","s","t","/","l","e","a","f","l","e","t",".","c","s","s">>
    [] s = "https://unpkg.com/leaflet@1.9.4/dist/leaflet.js" ->
         <<"h","t","t","p","s",":","/","/","u","n","p","k","g",".","c","o","m","/","l","e","a","f","l","e","t","@","1",".","9",".","4","/","d","i","s","t","/","l","e","a","f","l","e","t",".","j","s">>
    [] s = "https://cdn.jsdelivr.net/npm/@supabase/supabase-js@2" ->
         <<"h","t","t","p","s",":","/","/","c","d","n",".","j","s","d","e","l","i","v","r",".","n","e","t","/","n","p","m","/","@","s","u","p","a","b","a","s","e","/","s","u","p","a","b","a","s","e","-","j","s","@","2">>
    [] s = "https://seva.app/logo.PNG" ->
         <<"h","t","t","p","s",":","/","/","s","e","v","a",".","a","p","p","/","l","o","g","o",".","P","N","G">>
    [] s = "https://seva.app/about.html" ->
         <<"h","t","t","p","s",":","/","/","s","e","v","a",".","a","p","p","/","a","b","o","u","t",".","h","t","m","l">>
    [] s = "https://seva.app/submit.json" ->
         <<"h","t","t","p","s",":","/","/","s","e","v","a",".","a","p","p","/","s","u","b","m","i","t",".","j","s","o","n">>
    [] s = "https://db.supabase.co/rest/items.json" ->
         <<"h","t","t","p","s",":","/","/","d","b",".","s","u","p","a","b","a","s","e",".","c","o","/","r","e","s","t","/","i","t","e","m","s",".","j","s","o","n">>
    [] s = "chrome-extension://abcdef/icon.png" ->
         <<"c","h","r","o","m","e","-","e","x","t","e","n","s","i","o","n",":","/","/","a","b","c","d","e","f","/","i","c","o","n",".","p","n","g">>
    [] s = "https://seva.app/data.api" ->
         <<"h","t","t","p","s",":","/","/","s","e","v","a",".","a","p","p","/","d","a","t","a",".","a","p","i">>
    [] s = "https://seva.app/donate" ->
         <<"h","t","t","p","s",":","/","/","s","e","v","a",".","a","p","p","/","d","o","n","a","t","e">>
    [] s = "http:" ->
         <<"h","t","t","p",":">>
    [] s = "https:" ->
         <<"h","t","t","p","s",":">>
    [] s = "GET" ->
         <<"G","E","T">>
    [] s = "navigate" ->
         <<"n","a","v","i","g","a","t","e">>
    [] s = "css" ->
         <<"c","s","s">>
    [] s = "js" ->
         <<"j","s">>
    [] s = "woff2" ->
         <<"w","o","f","f","2">>
    [] s = "woff" ->
         <<"w","o","f","f">>
    [] s = "ttf" ->
         <<"t","t","f">>
    [] s = "svg" ->
         <<"s","v","g">>
    [] s = "png" ->
         <<"p","n","g">>
    [] s = "jpg" ->
         <<"j","p","g">>
    [] s = "jpeg" ->
         <<"j","p","e","g">>
    [] s = "gif" ->
         <<"g","i","f">>
    [] s = "webp" ->
         <<"w","e","b","p">>
    [] s = "html" ->
         <<"h","t","m","l">>
    [] s = "json" ->
         <<"j","s","o","n">>
    [] s = "api" ->
         <<"a","p","i">>

\* The string with the given characters (inverse of Chars on Strings).
Str(c) == CHOOSE s \in Strings : Chars(s) = c

UpperCase == <<"A","B","C","D","E","F","G","H","I","J","K","L","M","N","O","P","Q","R","S","T","U","V","W","X","Y","Z">>
LowerCase == <<"a","b","c","d","e","f","g","h","i","j","k","l","m","n","o","p","q","r","s","t","u","v","w","x","y","z">>

\* String.prototype.toLowerCase
ToLowerCase(c) ==
  [i \in 1..Len(c) |->
     IF \E k \in 1..Len(UpperCase) : UpperCase[k] = c[i]
     THEN LowerCase[CHOOSE k \in 1..Len(UpperCase) : UpperCase[k] = c[i]]
     ELSE c[i]]

\* String.prototype.startsWith
StartsWith(c, prefix) ==
  /\ Len(prefix) <= Len(c)
  /\ SubSeq(c, 1, Len(prefix)) = prefix

\* String.prototype.includes
StringIncludes(c, sub) ==
  \E i \in 1..(Len(c) - Len(sub) + 1) : SubSeq(c, i, i + Len(sub) - 1) = sub

\* First index >= from at which ch occurs in c, Len(c)+1 when there is none.
IndexFrom(c, ch, from) ==
  IF \E i \in from..Len(c) : c[i] = ch
  THEN CHOOSE i \in from..Len(c) : c[i] = ch /\ \A j \in from..(i - 1) : c[j] # ch
  ELSE Len(c) + 1

\* s.split('.').pop(): what follows the last dot, the whole string without one.
SplitPop(c) ==
  IF \E i \in 1..Len(c) : c[i] = "."
  THEN LET last == CHOOSE i \in 1..Len(c) :
                     c[i] = "." /\ \A j \in (i + 1)..Len(c) : c[j] # "."
       IN SubSeq(c, last + 1, Len(c))
  ELSE c

\* new URL(request.url): protocol (with its colon), hostname and pathname of
\* an absolute URL scheme://host/path (the modelled URLs carry no port, query
\* or fragment); an empty path is "/".
ParseURL(c) ==
  LET colon   == IndexFrom(c, ":", 1)
      hostBeg == colon + 3
      hostEnd == IndexFrom(c, "/", hostBeg)
  IN [protocol |-> SubSeq(c, 1, colon),
      hostname |-> SubSeq(c, hostBeg, hostEnd - 1),
      pathname |-> IF hostEnd > Len(c) THEN <<"/">> ELSE SubSeq(c, hostEnd, Len(c))]

\* ------------------------------------------------------------------
\* Configuration of the worker
\* ------------------------------------------------------------------
CACHE_VERSION == "seva-v2.1"
CACHE_NAME == Str(Chars("seva-cache-") \o Chars(CACHE_VERSION))

CORE_ASSETS == <<"/", "/index.html", "/manifest.json", "/site.webmanifest">>

CDN_ASSETS ==
  <<"https://cdn.tailwindcss.com",
    "https://unpkg.com/leaflet@1.9.4/dist/leaflet.css",
    "https://unpkg.com/leaflet@1.9.4/dist/leaflet.js",
    "https://cdn.jsdelivr.net/npm/@supabase/supabase-js@2">>

CACHE_STRATEGIES ==
  [cacheFirst   |-> <<"css", "js", "woff2", "woff", "ttf", "svg", "png", "jpg", "jpeg", "gif", "webp">>,
   networkFirst |-> <<"html", "json">>,
   networkOnly  |-> <<"api">>]

\* Array.prototype.includes on a list of strings, for a character sequence.
ListIncludes(list, c) == \E i \in 1..Len(list) : Chars(list[i]) = c

\* The origin the worker is served from: relative URLs resolve against it.
ORIGIN == "https://seva.app"

\* The absolute URL a cache key or fetch target stands for (the url of
\* new Request(u)): a path is resolved against the origin, and an absolute
\* URL that ends with its host is serialised with the path "/".
ResolveURL(u) ==
  IF StartsWith(Chars(u), <<"/">>)
    THEN Str(Chars(ORIGIN) \o Chars(u))
  ELSE IF IndexFrom(Chars(u), "/", IndexFrom(Chars(u), ":", 1) + 3) > Len(Chars(u))
    THEN Str(Chars(u) \o <<"/">>)
  ELSE u

\* ------------------------------------------------------------------
\* Requests, responses and the network
\* ------------------------------------------------------------------
Req(method, url, mode, destination) ==
  [method |-> method, url |-> url, mode |-> mode, destination |-> destination]

\* The requests a page of the application sends through the worker.
Requests ==
  {Req("GET",  "https://unpkg.com/leaflet@1.9.4/dist/leaflet.css", "no-cors",  "style"),
   Req("GET",  "https://seva.app/logo.PNG",                        "no-cors",  "image"),
   Req("GET",  "https://seva.app/index.html",                      "navigate", "document"),
   Req("GET",  "https://seva.app/about.html",                      "navigate", "document"),
   Req("POST", "https://seva.app/submit.json",                     "cors",     ""),
   Req("GET",  "https://db.supabase.co/rest/items.json",           "cors",     ""),
   Req("GET",  "chrome-extension://abcdef/icon.png",               "no-cors",  "image"),
   Req("GET",  "https://seva.app/data.api",                        "cors",     ""),
   Req("POST", "https://seva.app/donate",                          "cors",     ""),
   Req("GET",  "https://seva.app/donate",                          "navigate", "document")}

\* Status codes the network answers with.
Statuses == {200, 500}

\* What a network call ends in: a response with a status, or a network error.
NetOutcomes ==
  {[type |-> "response", status |-> s] : s \in Statuses}
    \cup {[type |-> "error", status |-> 0]}

\* A response: its status and the network call it came from, which is the
\* seq-th call issued for its URL.
Response(status, seq) == [status |-> status, seq |-> seq]

\* The absent record (cache.match resolving to undefined).
NoRecord == [status |-> 0, seq |-> 0]

\* Response.ok
IsOk(response) == response.status >= 200 /\ response.status <= 299

\* ------------------------------------------------------------------
\* State
\* ------------------------------------------------------------------
VARIABLES
  swState,      \* lifecycle state of this worker
  skipWaiting,  \* the skip-waiting flag of the worker
  storage,      \* CacheStorage: store name -> cache object
  content,      \* cache object -> (URL -> stored response)
  nextId,       \* next cache object to create
  netSeq,       \* URL -> number of network calls issued for it so far
  install,      \* progress of the install handler
  act,          \* progress of the activate handler
  clients,      \* takeover and notification of the open pages
  req,          \* fetch event handlers
  msg,          \* message event handlers
  sync          \* periodicsync event handlers

vars == <<swState, skipWaiting, storage, content, nextId, netSeq,
          install, act, clients, req, msg, sync>>

\* ------------------------------------------------------------------
\* CacheStorage and Cache
\* ------------------------------------------------------------------
EmptyCache == [k \in {} |-> NoRecord]

\* An open that goes to the store of the previous deployment whatever name
\* it is given.
OpenCachePrevious(name) ==
  IF "seva-v1" \in DOMAIN storage
  THEN [storage |-> storage, content |-> content, nextId |-> nextId,
        id |-> storage["seva-v1"]]
  ELSE [storage |-> ("seva-v1" :> nextId) @@ storage,
        content |-> (nextId :> EmptyCache) @@ content,
        nextId |-> nextId + 1,
        id |-> nextId]

\* caches.open(name): the cache object of that name, created when absent.
OpenCache(name) ==
  IF name \in DOMAIN storage
  THEN [storage |-> storage, content |-> content, nextId |-> nextId,
        id |-> storage[name]]
  ELSE [storage |-> (name :> nextId) @@ storage,
        content |-> (nextId :> EmptyCache) @@ content,
        nextId |-> nextId + 1,
        id |-> nextId]

\* A put that keeps the record it finds when that one is of a later call.
CachePutIfNewer(ct, id, url, response) ==
  IF ResolveURL(url) \in DOMAIN ct[id] /\ ct[id][ResolveURL(url)].seq > response.seq
  THEN ct
  ELSE [ct EXCEPT ![id] = (ResolveURL(url) :> response) @@ ct[id]]

\* cache.put(url, response) on a cache object: the record is replaced whole.
CachePut(ct, id, url, response) ==
  [ct EXCEPT ![id] = (ResolveURL(url) :> response) @@ ct[id]]

\* cache.match(request) on a cache object: only a GET request matches.
CacheMatch(ct, id, request) ==
  IF request.method = "GET" /\ request.url \in DOMAIN ct[id]
  THEN ct[id][request.url]
  ELSE NoRecord

\* caches.delete(name)
DeleteCache(st, name) == [n \in DOMAIN st \ {name} |-> st[n]]

\* caches.match(url): the first hit over the stores in creation order.
CachesMatch(st, ct, url) ==
  LET hits == {st[n] : n \in {m \in DOMAIN st : ResolveURL(url) \in DOMAIN ct[st[m]]}}
  IN IF hits = {} THEN NoRecord
     ELSE ct[CHOOSE i \in hits : \A j \in hits : i <= j][ResolveURL(url)]

\* cache.addAll: every response must be ok, and then all are stored at once.
AddAllOk(outs) == \A i \in DOMAIN outs : outs[i].type = "response" /\ IsOk(outs[i])

RECURSIVE PutAll(_, _, _, _, _)
PutAll(ct, id, urls, outs, seqs) ==
  IF urls = << >> THEN ct
  ELSE PutAll(CachePut(ct, id, Head(urls), Response(Head(outs).status, Head(seqs))),
              id, Tail(urls), Tail(outs), Tail(seqs))

\* Every URL a network call is issued for.
URLs ==
  {ResolveURL(CORE_ASSETS[i]) : i \in 1..Len(CORE_ASSETS)}
    \cup {ResolveURL(CDN_ASSETS[i]) : i \in 1..Len(CDN_ASSETS)}
    \cup {r.url : r \in Requests}

\* One network call is issued for each url of the list: the issue numbers
\* the calls get, and the counters afterwards.
IssueNumbers(urls) == [i \in 1..Len(urls) |-> netSeq[ResolveURL(urls[i])] + 1]
Issued(urls) ==
  [u \in URLs |-> IF \E i \in 1..Len(urls) : ResolveURL(urls[i]) = u
                  THEN netSeq[u] + 1 ELSE netSeq[u]]

\* ------------------------------------------------------------------
\* Initial state: the script has been evaluated; stores of earlier
\* deployments and of other code of the origin may exist.
\* ------------------------------------------------------------------
LegacyNames == <<"seva-cache-seva-v2.0", "seva-cache-seva-v2.1-images", "seva-v1">>

\* The shell document an earlier deployment stored.
LegacyShell == ("https://seva.app/index.html" :> Response(200, 0))

Init ==
  /\ swState = "parsed"
  /\ skipWaiting = FALSE
  /\ \E present \in SUBSET (1..Len(LegacyNames)) :
       /\ storage = [n \in {LegacyNames[i] : i \in present} |->
                       CHOOSE i \in present : LegacyNames[i] = n]
       /\ content = [i \in 1..Len(LegacyNames) |->
                       IF i = 1 /\ i \in present THEN LegacyShell ELSE EmptyCache]
  /\ nextId = Len(LegacyNames) + 1
  /\ netSeq = [u \in URLs |-> 0]
  /\ install = [pc |-> "idle", cache |-> 0, seqs |-> << >>, pending |-> {},
                failed |-> {}]
  /\ act = [pc |-> "idle", pending |-> {}]
  /\ clients = [claimed |-> FALSE, updated |-> FALSE]
  /\ req = << >>
  /\ msg = << >>
  /\ sync = << >>

\* ------------------------------------------------------------------
\* install (src/sw.js 31-60)
\* ------------------------------------------------------------------
\* The install event: the listener calls caches.open(CACHE_NAME) and
\* returns.
InstallEvent ==
  /\ swState = "parsed"
  /\ swState' = "installing"
  /\ install' = [install EXCEPT !.pc = "open"]
  /\ UNCHANGED <<skipWaiting, storage, content, nextId, netSeq, act, clients, req, msg, sync>>

\* caches.open(CACHE_NAME) of the install settles: cache.addAll(CORE_ASSETS)
\* issues one network call per core asset.
InstallOpen ==
  /\ install.pc = "open"
  /\ LET o == OpenCache(CACHE_NAME) IN
       /\ storage' = o.storage
       /\ content' = o.content
       /\ nextId' = o.nextId
       /\ install' = [install EXCEPT !.pc = "core", !.cache = o.id,
                                     !.seqs = IssueNumbers(CORE_ASSETS)]
  /\ netSeq' = Issued(CORE_ASSETS)
  /\ UNCHANGED <<swState, skipWaiting, act, clients, req, msg, sync>>

\* cache.addAll(CORE_ASSETS) settles: all stored, or the chain rejects and
\* the trailing catch logs the error, which fulfils the promise given to
\* waitUntil, so that the worker is installed.
InstallCore(outs) ==
  /\ install.pc = "core"
  /\ IF AddAllOk(outs)
     THEN /\ content' = PutAll(content, install.cache, CORE_ASSETS, outs, install.seqs)
          /\ install' = [install EXCEPT !.pc = "opencdn"]
          /\ swState' = swState
     ELSE /\ content' = content
          /\ install' = [install EXCEPT !.pc = "failed"]
          /\ swState' = "installed"
  /\ UNCHANGED <<skipWaiting, storage, nextId, netSeq, act, clients, req, msg, sync>>

\* The second caches.open(CACHE_NAME) and one cache.add per CDN asset.
InstallCdnOpen ==
  /\ install.pc = "opencdn"
  /\ LET o == OpenCache(CACHE_NAME) IN
       /\ storage' = o.storage
       /\ content' = o.content
       /\ nextId' = o.nextId
       /\ install' = [install EXCEPT !.pc = "cdn", !.cache = o.id,
                                     !.seqs = IssueNumbers(CDN_ASSETS),
                                     !.pending = 1..Len(CDN_ASSETS)]
  /\ netSeq' = Issued(CDN_ASSETS)
  /\ UNCHANGED <<swState, skipWaiting, act, clients, req, msg, sync>>

\* A cache.add(url) whose rejection is not caught: the rejection reaches the
\* handler of the whole installation chain.
InstallCdnAddUncaught(i, out) ==
  /\ install.pc = "cdn"
  /\ i \in install.pending
  /\ IF out.type = "response" /\ IsOk(out)
     THEN /\ content' = CachePut(content, install.cache, CDN_ASSETS[i],
                                 Response(out.status, install.seqs[i]))
          /\ install' = [install EXCEPT !.pending = @ \ {i}]
          /\ swState' = swState
     ELSE /\ content' = content
          /\ install' = [install EXCEPT !.pending = @ \ {i}, !.failed = @ \cup {i},
                                        !.pc = "failed"]
          /\ swState' = "installed"
  /\ UNCHANGED <<skipWaiting, storage, nextId, netSeq, act, clients, req, msg, sync>>

\* One cache.add(url) settles: an ok response is stored, anything else is
\* caught and logged ("Failed to cache CDN asset"); install.failed is the set
\* of assets for which that warning was logged.
InstallCdnAdd(i, out) ==
  /\ install.pc = "cdn"
  /\ i \in install.pending
  /\ IF out.type = "response" /\ IsOk(out)
     THEN /\ content' = CachePut(content, install.cache, CDN_ASSETS[i],
                                 Response(out.status, install.seqs[i]))
          /\ install' = [install EXCEPT !.pending = @ \ {i}]
     ELSE /\ content' = content
          /\ install' = [install EXCEPT !.pending = @ \ {i}, !.failed = @ \cup {i}]
  /\ UNCHANGED <<swState, skipWaiting, storage, nextId, netSeq, act, clients, req, msg, sync>>

\* Promise.allSettled is settled: self.skipWaiting(), installation complete.
InstallSkipWaiting ==
  /\ install.pc = "cdn"
  /\ install.pending = {}
  /\ skipWaiting' = TRUE
  /\ install' = [install EXCEPT !.pc = "done"]
  /\ swState' = "installed"
  /\ UNCHANGED <<storage, content, nextId, netSeq, act, clients, req, msg, sync>>

\* ------------------------------------------------------------------
\* activate (src/sw.js 65-96)
\* ------------------------------------------------------------------
\* A test that takes every store but the current one for an old one.
IsOldCacheAny(cacheName) == cacheName # CACHE_NAME

\* IsOldCache with the prefix test made against the current store's name.
IsOldCacheOfGeneration(cacheName) ==
  /\ cacheName # CACHE_NAME
  /\ StartsWith(Chars(cacheName), Chars(CACHE_NAME))

\* The test of line 73: the stores activation deletes.
IsOldCache(cacheName) ==
  /\ cacheName # CACHE_NAME
  /\ StartsWith(Chars(cacheName), Chars("seva-cache-"))

\* The activate event (the browser activates an installed worker when it
\* skips waiting or when no page is left to the previous one): the listener
\* calls caches.keys() and returns.
ActivateEvent ==
  /\ swState = "installed"
  /\ swState' = "activating"
  /\ act' = [pc |-> "keys", pending |-> {}]
  /\ UNCHANGED <<skipWaiting, storage, content, nextId, netSeq, install, clients, req, msg, sync>>

\* caches.keys() of the activation settles: one caches.delete is issued per
\* old store among the names that exist at that moment.
ActivateKeys ==
  /\ act.pc = "keys"
  /\ act' = [pc |-> "deleting", pending |-> {n \in DOMAIN storage : IsOldCache(n)}]
  /\ UNCHANGED <<swState, skipWaiting, storage, content, nextId, netSeq, install, clients, req, msg, sync>>

\* One caches.delete(cacheName) settles. A rejection rejects Promise.all and
\* with it the chain given to waitUntil: the later steps are skipped, and
\* the worker is activated all the same.
ActivateDelete(n, ok) ==
  /\ n \in act.pending
  /\ IF ok
     THEN /\ storage' = DeleteCache(storage, n)
          /\ act' = [act EXCEPT !.pending = @ \ {n}]
          /\ swState' = swState
     ELSE /\ storage' = storage
          /\ act' = [act EXCEPT !.pending = @ \ {n}, !.pc = "rejected"]
          /\ swState' = "activated"
  /\ UNCHANGED <<skipWaiting, content, nextId, netSeq, install, clients, req, msg, sync>>

\* A takeover that does not wait for the deletions.
ActivateClaimEarly ==
  /\ act.pc = "deleting"
  /\ act' = [act EXCEPT !.pc = "claimed"]
  /\ clients' = [clients EXCEPT !.claimed = TRUE]
  /\ UNCHANGED <<swState, skipWaiting, storage, content, nextId, netSeq, install, req, msg, sync>>

\* Every deletion succeeded: self.clients.claim().
ActivateClaim ==
  /\ act.pc = "deleting"
  /\ act.pending = {}
  /\ act' = [act EXCEPT !.pc = "claimed"]
  /\ clients' = [clients EXCEPT !.claimed = TRUE]
  /\ UNCHANGED <<swState, skipWaiting, storage, content, nextId, netSeq, install, req, msg, sync>>

\* postMessage SW_UPDATED to every client; the chain is fulfilled.
ActivateNotify ==
  /\ act.pc = "claimed"
  /\ act' = [act EXCEPT !.pc = "done"]
  /\ clients' = [clients EXCEPT !.updated = TRUE]
  /\ swState' = "activated"
  /\ UNCHANGED <<skipWaiting, storage, content, nextId, netSeq, install, req, msg, sync>>

\* ------------------------------------------------------------------
\* message (src/sw.js 297-316)
\* ------------------------------------------------------------------
\* The url lists a page sends with CACHE_URLS (none: event.data.urls || []).
UrlLists ==
  {<< >>,
   <<"https://seva.app/logo.PNG">>,
   <<"/index.html", "https://seva.app/about.html">>}

MessageTypes == {"SKIP_WAITING", "CACHE_URLS", "CLEAR_CACHE"}

\* The message event: SKIP_WAITING sets the flag; CACHE_URLS calls
\* caches.open(CACHE_NAME) and CLEAR_CACHE calls caches.keys(), and the
\* listener returns.
MessageEvent(type, urls) ==
  /\ type \in MessageTypes
  /\ type # "CACHE_URLS" => urls = << >>
  /\ msg' = Append(msg, [type |-> type,
                         pc |-> CASE type = "CACHE_URLS"  -> "open"
                                  [] type = "CLEAR_CACHE" -> "keys"
                                  [] OTHER                -> "done",
                         cache |-> 0, seqs |-> << >>, urls |-> urls, pending |-> {}])
  /\ skipWaiting' = (skipWaiting \/ type = "SKIP_WAITING")
  /\ UNCHANGED <<swState, storage, content, nextId, netSeq, install, act, clients, req, sync>>

\* caches.open(CACHE_NAME) of CACHE_URLS settles: cache.addAll(urls) issues
\* one network call per url.
CacheUrlsOpen(j) ==
  /\ j \in DOMAIN msg
  /\ msg[j].pc = "open"
  /\ LET o == OpenCache(CACHE_NAME) IN
       /\ storage' = o.storage
       /\ content' = o.content
       /\ nextId' = o.nextId
       /\ msg' = [msg EXCEPT ![j].pc = "adding", ![j].cache = o.id,
                             ![j].seqs = IssueNumbers(msg[j].urls)]
  /\ netSeq' = Issued(msg[j].urls)
  /\ UNCHANGED <<swState, skipWaiting, install, act, clients, req, sync>>

\* caches.keys() of CLEAR_CACHE settles: one caches.delete is issued per
\* name that exists at that moment.
ClearCacheKeys(j) ==
  /\ j \in DOMAIN msg
  /\ msg[j].pc = "keys"
  /\ msg' = [msg EXCEPT ![j].pending = DOMAIN storage,
                        ![j].pc = IF DOMAIN storage = {} THEN "done" ELSE "clearing"]
  /\ UNCHANGED <<swState, skipWaiting, storage, content, nextId, netSeq, install, act, clients, req, sync>>

\* cache.addAll(urls) of CACHE_URLS settles.
CacheUrlsSettle(j, outs) ==
  /\ j \in DOMAIN msg
  /\ msg[j].pc = "adding"
  /\ content' = IF AddAllOk(outs)
                THEN PutAll(content, msg[j].cache, msg[j].urls, outs, msg[j].seqs)
                ELSE content
  /\ msg' = [msg EXCEPT ![j].pc = "done"]
  /\ UNCHANGED <<swState, skipWaiting, storage, nextId, netSeq, install, act, clients, req, sync>>

\* One caches.delete(name) of CLEAR_CACHE settles.
ClearCacheDelete(j, n, ok) ==
  /\ j \in DOMAIN msg
  /\ msg[j].pc = "clearing"
  /\ n \in msg[j].pending
  /\ storage' = IF ok THEN DeleteCache(storage, n) ELSE storage
  /\ msg' = [msg EXCEPT ![j].pending = @ \ {n},
                        ![j].pc = IF msg[j].pending = {n} THEN "done" ELSE @]
  /\ UNCHANGED <<swState, skipWaiting, content, nextId, netSeq, install, act, clients, req, sync>>

\* ------------------------------------------------------------------
\* periodicsync and updateContent (src/sw.js 366-392)
\* ------------------------------------------------------------------
\* periodicsync with tag update-content: updateContent runs up to its
\* await of caches.open(CACHE_NAME).
PeriodicSyncEvent ==
  /\ swState = "activated"
  /\ sync' = Append(sync, [pc |-> "open", cache |-> 0, seqs |-> << >>,
                           pending |-> {}, putting |-> {}])
  /\ UNCHANGED <<swState, skipWaiting, storage, content, nextId, netSeq, install, act, clients, req, msg>>

\* caches.open(CACHE_NAME) of updateContent settles: one fetch is issued
\* per core asset.
UpdateContentOpen(k) ==
  /\ k \in DOMAIN sync
  /\ sync[k].pc = "open"
  /\ LET o == OpenCache(CACHE_NAME) IN
       /\ storage' = o.storage
       /\ content' = o.content
       /\ nextId' = o.nextId
       /\ sync' = [sync EXCEPT ![k].pc = "updating", ![k].cache = o.id,
                               ![k].seqs = IssueNumbers(CORE_ASSETS),
                               ![k].pending = 1..Len(CORE_ASSETS)]
  /\ netSeq' = Issued(CORE_ASSETS)
  /\ UNCHANGED <<swState, skipWaiting, install, act, clients, req, msg>>

\* The test of line 382: updateContent stores a response only when it is ok.
UpdateStores(response) == IsOk(response)

\* One fetch(url) of updateContent settles: with an ok response
\* cache.put(url, response) is called, anything else ends that asset.
UpdateContentFetch(k, i, out) ==
  /\ k \in DOMAIN sync
  /\ sync[k].pc = "updating"
  /\ i \in sync[k].pending
  /\ LET response == Response(out.status, sync[k].seqs[i])
         stores   == out.type = "response" /\ UpdateStores(response)
     IN sync' = [sync EXCEPT
                   ![k].pending = @ \ {i},
                   ![k].putting = IF stores THEN @ \cup {[asset |-> i, response |-> response]}
                                  ELSE @,
                   ![k].pc = IF sync[k].pending = {i} /\ sync[k].putting = {} /\ ~stores
                             THEN "done" ELSE @]
  /\ UNCHANGED <<swState, skipWaiting, storage, content, nextId, netSeq, install, act, clients, req, msg>>

\* One cache.put(url, response) of updateContent completes.
UpdateContentPut(k, p) ==
  /\ k \in DOMAIN sync
  /\ sync[k].pc = "updating"
  /\ p \in sync[k].putting
  /\ content' = CachePut(content, sync[k].cache, CORE_ASSETS[p.asset], p.response)
  /\ sync' = [sync EXCEPT ![k].putting = @ \ {p},
                          ![k].pc = IF sync[k].pending = {} /\ sync[k].putting = {p}
                                    THEN "done" ELSE @]
  /\ UNCHANGED <<swState, skipWaiting, storage, nextId, netSeq, install, act, clients, req, msg>>

\* ------------------------------------------------------------------
\* fetch (src/sw.js 101-128)
\* ------------------------------------------------------------------
\* SelectStrategy with the extension table consulted before the API host.
SelectStrategyByExtensionFirst(request) ==
  LET url == ParseURL(Chars(request.url))
      fileExtension == ToLowerCase(SplitPop(url.pathname))
  IN IF url.protocol # Chars("http:") /\ url.protocol # Chars("https:")
       THEN "none"
     ELSE IF ListIncludes(CACHE_STRATEGIES.cacheFirst, fileExtension)
       THEN "cacheFirst"
     ELSE IF ListIncludes(CACHE_STRATEGIES.networkFirst, fileExtension)
       THEN "networkFirst"
     ELSE IF StringIncludes(url.hostname, Chars("supabase.co"))
       THEN "network"
     ELSE "networkWithCacheFallback"

\* The routing of the fetch handler: "none" leaves the request to the
\* browser, "network" is the pass-through fetch of the API host.
SelectStrategy(request) ==
  LET url == ParseURL(Chars(request.url))
      fileExtension == ToLowerCase(SplitPop(url.pathname))
  IN IF url.protocol # Chars("http:") /\ url.protocol # Chars("https:")
       THEN "none"
     ELSE IF StringIncludes(url.hostname, Chars("supabase.co"))
       THEN "network"
     ELSE IF ListIncludes(CACHE_STRATEGIES.cacheFirst, fileExtension)
       THEN "cacheFirst"
     ELSE IF ListIncludes(CACHE_STRATEGIES.networkFirst, fileExtension)
       THEN "networkFirst"
     ELSE "networkWithCacheFallback"

\* What event.respondWith was given, once it settles.
Pending == [kind |-> "pending", response |-> NoRecord]
Responded(response) == [kind |-> "response", response |-> response]
Rejected == [kind |-> "rejected", response |-> NoRecord]
Undefined == [kind |-> "undefined", response |-> NoRecord]
NotIntercepted == [kind |-> "default", response |-> NoRecord]

\* A handler of a fetch event as it starts.
NewHandler(request) ==
  [request |-> request, strategy |-> SelectStrategy(request), pc |-> "start",
   cache |-> 0, hit |-> NoRecord, net |-> NoRecord, seq |-> 0,
   result |-> Pending, fgCalls |-> 0, bgCalls |-> 0, lookups |-> 0, puts |-> 0]

\* fetch(request) is called in the foreground: the call gets issue number seq.
IssueFetch(h, seq) == [h EXCEPT !.pc = "fetching", !.seq = seq, !.fgCalls = @ + 1]

\* The fetch event up to the point at which the listener returns: the early
\* return, the pass-through fetch, or the call of a strategy, which runs up
\* to its await of caches.open(CACHE_NAME).
FetchEvent(request) ==
  /\ swState = "activated"
  /\ LET h == NewHandler(request) IN
       CASE h.strategy = "none" ->
              /\ req' = Append(req, [h EXCEPT !.pc = "done", !.result = NotIntercepted])
              /\ netSeq' = netSeq
         [] h.strategy = "network" ->
              /\ req' = Append(req, IssueFetch(h, netSeq[request.url] + 1))
              /\ netSeq' = Issued(<<request.url>>)
         [] OTHER ->
              /\ req' = Append(req, [h EXCEPT !.pc = "open"])
              /\ netSeq' = netSeq
  /\ UNCHANGED <<swState, skipWaiting, storage, content, nextId, install, act, clients, msg, sync>>

\* caches.open(CACHE_NAME) of a strategy settles: Cache-First goes on to
\* cache.match(request), Network-First and the default strategy to
\* fetch(request).
StrategyOpen(i) ==
  /\ i \in DOMAIN req
  /\ req[i].pc = "open"
  /\ LET o == OpenCache(CACHE_NAME) IN
       /\ storage' = o.storage
       /\ content' = o.content
       /\ nextId' = o.nextId
       /\ IF req[i].strategy = "cacheFirst"
          THEN /\ req' = [req EXCEPT ![i].pc = "match", ![i].cache = o.id]
               /\ netSeq' = netSeq
          ELSE /\ req' = [req EXCEPT ![i] = IssueFetch([req[i] EXCEPT !.cache = o.id],
                                                       netSeq[req[i].request.url] + 1)]
               /\ netSeq' = Issued(<<req[i].request.url>>)
  /\ UNCHANGED <<swState, skipWaiting, install, act, clients, msg, sync>>

\* ------------------------------------------------------------------
\* Caching strategies (src/sw.js 135-213)
\* ------------------------------------------------------------------
\* fetchAndCache(request, cache) is called: the background fetch gets issue
\* number seq; nothing waits for it.
fetchAndCache(h, seq) == [h EXCEPT !.pc = "revalidating", !.seq = seq, !.bgCalls = @ + 1]

\* CacheFirstOnMatch without the call of fetchAndCache on a hit.
CacheFirstOnMatchNoRefresh(h, cached, seq) ==
  IF cached # NoRecord
  THEN [h EXCEPT !.pc = "done", !.hit = cached, !.lookups = @ + 1,
                 !.result = Responded(cached)]
  ELSE [IssueFetch(h, seq) EXCEPT !.lookups = @ + 1]

\* cacheFirstStrategy after cache.match: a hit is returned at once and
\* refreshed in the background, a miss goes to the network.
CacheFirstOnMatch(h, cached, seq) ==
  IF cached # NoRecord
  THEN [fetchAndCache(h, seq) EXCEPT !.hit = cached, !.lookups = @ + 1,
                                     !.result = Responded(cached)]
  ELSE [IssueFetch(h, seq) EXCEPT !.lookups = @ + 1]

\* A response is back and is returned; when store holds, cache.put is called
\* with it: the put is pending for a GET request and rejects for any other.
ReturnResponse(h, response, store) ==
  [h EXCEPT !.net = response,
            !.result = Responded(response),
            !.puts = IF store THEN @ + 1 ELSE @,
            !.pc = IF store /\ h.request.method = "GET" THEN "put" ELSE "done"]

\* cacheFirstStrategy after its fetch: lines 145-154.
CacheFirstOnFetch(h, out) ==
  IF out.type = "response"
  THEN ReturnResponse(h, Response(out.status, h.seq), IsOk(Response(out.status, h.seq)))
  ELSE [h EXCEPT !.pc = "done", !.result = Rejected]

\* NetworkFirstOnFetch without the response.ok test before cache.put.
NetworkFirstOnFetchStoresAll(h, out) ==
  IF out.type = "response"
  THEN ReturnResponse(h, Response(out.status, h.seq), TRUE)
  ELSE [h EXCEPT !.pc = "fallback"]

\* networkFirstStrategy after its fetch: lines 161-173.
NetworkFirstOnFetch(h, out) ==
  IF out.type = "response"
  THEN ReturnResponse(h, Response(out.status, h.seq), IsOk(Response(out.status, h.seq)))
  ELSE [h EXCEPT !.pc = "fallback"]

\* networkWithCacheFallback after its fetch: lines 183-190.
FallbackOnFetch(h, out) ==
  IF out.type = "response"
  THEN ReturnResponse(h, Response(out.status, h.seq),
                      IsOk(Response(out.status, h.seq)) /\ h.request.method = "GET")
  ELSE [h EXCEPT !.pc = "fallback"]

\* The pass-through of line 112 after its fetch.
PassThroughOnFetch(h, out) ==
  IF out.type = "response"
  THEN ReturnResponse(h, Response(out.status, h.seq), FALSE)
  ELSE [h EXCEPT !.pc = "done", !.result = Rejected]

\* A catch that calls the network a second time when the store has nothing.
NetworkFirstOnFallbackRetry(h, cached) ==
  IF cached # NoRecord
  THEN [h EXCEPT !.pc = "done", !.hit = cached, !.lookups = @ + 1,
                 !.result = Responded(cached)]
  ELSE [IssueFetch(h, h.seq) EXCEPT !.lookups = @ + 1]

\* networkFirstStrategy in its catch, after cache.match: lines 173-175.
NetworkFirstOnFallback(h, cached) ==
  IF cached # NoRecord
  THEN [h EXCEPT !.pc = "done", !.hit = cached, !.lookups = @ + 1,
                 !.result = Responded(cached)]
  ELSE [h EXCEPT !.pc = "done", !.lookups = @ + 1, !.result = Rejected]

\* networkWithCacheFallback in its catch, after cache.match: lines 190-198.
FallbackOnFallback(h, cached) ==
  IF cached # NoRecord
  THEN [h EXCEPT !.pc = "done", !.hit = cached, !.lookups = @ + 1,
                 !.result = Responded(cached)]
  ELSE IF h.request.mode = "navigate"
  THEN [h EXCEPT !.pc = "shell", !.lookups = @ + 1]
  ELSE [h EXCEPT !.pc = "done", !.lookups = @ + 1, !.result = Rejected]

\* networkWithCacheFallback returning caches.match('/index.html'): line 195.
FallbackOnShell(h, shell) ==
  [h EXCEPT !.pc = "done", !.lookups = @ + 1,
            !.result = IF shell # NoRecord THEN Responded(shell) ELSE Undefined]

\* cache.match(request) of cacheFirstStrategy settles (line 137).
CacheFirstMatch(i) ==
  /\ i \in DOMAIN req
  /\ req[i].pc = "match"
  /\ req' = [req EXCEPT ![i] = CacheFirstOnMatch(req[i], CacheMatch(content, req[i].cache, req[i].request),
                                                 netSeq[req[i].request.url] + 1)]
  /\ netSeq' = Issued(<<req[i].request.url>>)
  /\ UNCHANGED <<swState, skipWaiting, storage, content, nextId, install, act, clients, msg, sync>>

\* The foreground fetch of a handler settles.
FetchSettle(i, out) ==
  /\ i \in DOMAIN req
  /\ req[i].pc = "fetching"
  /\ req' = [req EXCEPT ![i] =
               CASE req[i].strategy = "cacheFirst" -> CacheFirstOnFetch(req[i], out)
                 [] req[i].strategy = "networkFirst" -> NetworkFirstOnFetch(req[i], out)
                 [] req[i].strategy = "network" -> PassThroughOnFetch(req[i], out)
                 [] OTHER -> FallbackOnFetch(req[i], out)]
  /\ UNCHANGED <<swState, skipWaiting, storage, content, nextId, netSeq, install, act, clients, msg, sync>>

\* The cache.put that a strategy or fetchAndCache did not wait for
\* completes.
PutSettle(i) ==
  /\ i \in DOMAIN req
  /\ req[i].pc = "put"
  /\ content' = CachePut(content, req[i].cache, req[i].request.url, req[i].net)
  /\ req' = [req EXCEPT ![i].pc = "done"]
  /\ UNCHANGED <<swState, skipWaiting, storage, nextId, netSeq, install, act, clients, msg, sync>>

\* cache.match(request) in the catch of Network-First or of the default
\* strategy settles.
FallbackMatch(i) ==
  /\ i \in DOMAIN req
  /\ req[i].pc = "fallback"
  /\ req' = [req EXCEPT ![i] =
               IF req[i].strategy = "networkFirst"
               THEN NetworkFirstOnFallback(req[i], CacheMatch(content, req[i].cache, req[i].request))
               ELSE FallbackOnFallback(req[i], CacheMatch(content, req[i].cache, req[i].request))]
  /\ UNCHANGED <<swState, skipWaiting, storage, content, nextId, netSeq, install, act, clients, msg, sync>>

\* caches.match('/index.html') of the default strategy settles.
ShellMatch(i) ==
  /\ i \in DOMAIN req
  /\ req[i].pc = "shell"
  /\ req' = [req EXCEPT ![i] = FallbackOnShell(req[i], CachesMatch(storage, content, "/index.html"))]
  /\ UNCHANGED <<swState, skipWaiting, storage, content, nextId, netSeq, install, act, clients, msg, sync>>

\* RevalidationStores without the response.ok test.
RevalidationStoresAnything(response) == TRUE

\* The test of line 206: the background refresh stores only an ok response.
RevalidationStores(response) == IsOk(response)

\* A refresh that is awaited by the caller: its outcome becomes the
\* handler's result.
RevalidateSettleReported(i, out) ==
  /\ i \in DOMAIN req
  /\ req[i].pc = "revalidating"
  /\ LET response == Response(out.status, req[i].seq)
         stores   == out.type = "response" /\ IsOk(response)
     IN req' = [req EXCEPT ![i].pc = IF stores THEN "put" ELSE "done",
                           ![i].net = IF out.type = "response" THEN response ELSE NoRecord,
                           ![i].puts = IF stores THEN @ + 1 ELSE @,
                           ![i].result = IF out.type = "response"
                                         THEN Responded(response) ELSE Rejected]
  /\ UNCHANGED <<swState, skipWaiting, storage, content, nextId, netSeq, install, act, clients, msg, sync>>

\* The background fetch of fetchAndCache settles: with an ok response
\* cache.put is called (PutSettle completes it), a failure is swallowed; the
\* handler's result is not touched.
RevalidateSettle(i, out) ==
  /\ i \in DOMAIN req
  /\ req[i].pc = "revalidating"
  /\ LET response == Response(out.status, req[i].seq)
         stores   == out.type = "response" /\ RevalidationStores(response)
     IN req' = [req EXCEPT ![i].pc = IF stores THEN "put" ELSE "done",
                           ![i].net = IF out.type = "response" THEN response ELSE NoRecord,
                           ![i].puts = IF stores THEN @ + 1 ELSE @]
  /\ UNCHANGED <<swState, skipWaiting, storage, content, nextId, netSeq, install, act, clients, msg, sync>>

\* ------------------------------------------------------------------
\* Specifications
\* ------------------------------------------------------------------
\* Events delivered to the worker so far.
EventCount == Len(req) + Len(msg) + Len(sync)

\* The outcomes cache.addAll waits for, one per url of a list of length n.
Outcomes(n) == [1..n -> NetOutcomes]

\* Steps of the handlers that are running.
Continue ==
  \/ \E j \in DOMAIN msg, outs \in UNION {Outcomes(n) : n \in 0..2} :
       /\ Len(outs) = Len(msg[j].urls)
       /\ CacheUrlsSettle(j, outs)
  \/ \E j \in DOMAIN msg, n \in UNION {msg[k].pending : k \in DOMAIN msg}, ok \in BOOLEAN :
       ClearCacheDelete(j, n, ok)
  \/ \E j \in DOMAIN msg : CacheUrlsOpen(j)
  \/ \E j \in DOMAIN msg : ClearCacheKeys(j)
  \/ \E k \in DOMAIN sync : UpdateContentOpen(k)
  \/ \E k \in DOMAIN sync, i \in 1..Len(CORE_ASSETS), out \in NetOutcomes :
       UpdateContentFetch(k, i, out)
  \/ \E k \in DOMAIN sync, p \in UNION {sync[l].putting : l \in DOMAIN sync} :
       UpdateContentPut(k, p)
  \/ \E i \in DOMAIN req : StrategyOpen(i)
  \/ \E i \in DOMAIN req : CacheFirstMatch(i)
  \/ \E i \in DOMAIN req, out \in NetOutcomes : FetchSettle(i, out)
  \/ \E i \in DOMAIN req : PutSettle(i)
  \/ \E i \in DOMAIN req : FallbackMatch(i)
  \/ \E i \in DOMAIN req : ShellMatch(i)
  \/ \E i \in DOMAIN req, out \in NetOutcomes : RevalidateSettle(i, out)

\* An event is delivered to the worker.
Deliver ==
  \/ \E type \in MessageTypes, urls \in UrlLists : MessageEvent(type, urls)
  \/ PeriodicSyncEvent
  \/ \E request \in Requests : FetchEvent(request)

\* The worker from its first evaluation on, under every outcome of every
\* network call and store deletion.
Next ==
  \/ InstallEvent
  \/ InstallOpen
  \/ \E outs \in Outcomes(Len(CORE_ASSETS)) : InstallCore(outs)
  \/ InstallCdnOpen
  \/ \E i \in 1..Len(CDN_ASSETS), out \in NetOutcomes : InstallCdnAdd(i, out)
  \/ InstallSkipWaiting
  \/ ActivateEvent
  \/ ActivateKeys
  \/ \E n \in act.pending, ok \in BOOLEAN : ActivateDelete(n, ok)
  \/ ActivateClaim
  \/ ActivateNotify
  \/ (EventCount < MaxEvents /\ Deliver)
  \/ Continue

Spec == Init /\ [][Next]_vars

\* The worker serving pages: the stores of earlier deployments exist, the
\* install finds every asset or misses the shell document, activation
\* deletes what it set out to delete, and events arrive once the worker is
\* activated. Every behaviour of SpecServe is a behaviour of Spec but for
\* the number of events.
Found == [type |-> "response", status |-> 200]
Missed == [type |-> "response", status |-> 500]

InitServe == Init /\ DOMAIN storage = {LegacyNames[i] : i \in 1..Len(LegacyNames)}

NextServe ==
  \/ InstallEvent
  \/ InstallOpen
  \/ \E outs \in {[i \in 1..Len(CORE_ASSETS) |-> Found],
                   [i \in 1..Len(CORE_ASSETS) |-> IF i = 2 THEN Missed ELSE Found]} :
       InstallCore(outs)
  \/ InstallCdnOpen
  \/ \E i \in 1..Len(CDN_ASSETS) : InstallCdnAdd(i, Found)
  \/ InstallSkipWaiting
  \/ ActivateEvent
  \/ ActivateKeys
  \/ \E n \in act.pending : ActivateDelete(n, TRUE)
  \/ ActivateClaim
  \/ ActivateNotify
  \/ (swState = "activated" /\ EventCount < MaxServed /\ Deliver)
  \/ Continue

SpecServe == InitServe /\ [][NextServe]_vars

\* ------------------------------------------------------------------
\* Vocabulary of the properties
\* ------------------------------------------------------------------
\* The handler answered: respondWith's promise settled, or the event was
\* left to the browser.
Finished(h) == h.result.kind # "pending"

\* The exclusion rule of the fetch handler, read off the request itself.
IsHttp(request) ==
  ParseURL(Chars(request.url)).protocol \in {Chars("http:"), Chars("https:")}
IsApiHost(request) ==
  StringIncludes(ParseURL(Chars(request.url)).hostname, Chars("supabase.co"))

\* A store name of this worker's family, and of its current generation.
InSevaFamily(name) == StartsWith(Chars(name), Chars("seva-cache-"))
OfCurrentGeneration(name) == StartsWith(Chars(name), Chars(CACHE_NAME))

\* The record a cache object holds for a GET of the url, NoRecord without one.
RecordOf(ct, id, url) ==
  IF id \in DOMAIN ct /\ url \in DOMAIN ct[id] THEN ct[id][url] ELSE NoRecord

\* ------------------------------------------------------------------
\* C1
\* ------------------------------------------------------------------
\* C1: every intercepted http/https request is answered with a response
\* object; no strategy and no pass-through ends in a rejection (or in a
\* value that is no response) handed to respondWith.
C1_FetchAlwaysResponds ==
  \A i \in DOMAIN req :
    (IsHttp(req[i].request) /\ Finished(req[i])) => req[i].result.kind = "response"

\* ------------------------------------------------------------------
\* C2
\* ------------------------------------------------------------------
\* C2: in every reachable state, every record of every store has a success
\* status.
C2_OnlyOkStored ==
  \A id \in DOMAIN content : \A url \in DOMAIN content[id] :
    content[id][url].status >= 200 /\ content[id][url].status <= 299

\* A handler got a non-ok response for a URL the store has a record of.
C2_Witness ==
  \E i \in DOMAIN req :
    /\ req[i].pc = "done"
    /\ req[i].net.status = 500
    /\ req[i].request.method = "GET"
    /\ RecordOf(content, req[i].cache, req[i].request.url) # NoRecord

\* ------------------------------------------------------------------
\* C3
\* ------------------------------------------------------------------
\* C3: when populating the core assets fails, installation is aborted: the
\* worker never becomes installed or active, and skipWaiting is not reached.
C3_CoreFailureAbortsInstall ==
  install.pc = "failed" =>
    /\ swState \notin {"installed", "activating", "activated"}
    /\ ~clients.claimed

\* ------------------------------------------------------------------
\* C4
\* ------------------------------------------------------------------
\* C4 as stated: once activation has completed, every existing store belongs
\* to the current generation.
C4_OnlyCurrentGenerationLeft ==
  act.pc = "done" => \A n \in DOMAIN storage : OfCurrentGeneration(n)

\* C4 as amended: activation schedules for deletion only stores of this
\* worker's family (names starting with seva-cache-) other than the current
\* one, and once its deletions have all succeeded no such store exists;
\* stores under other names are left alone.
C4_NoOldFamilyStoreLeft ==
  /\ \A n \in act.pending : InSevaFamily(n) /\ n # CACHE_NAME
  /\ act.pc \in {"claimed", "done"} =>
       \A n \in DOMAIN storage : InSevaFamily(n) => n = CACHE_NAME

\* Activation completed where an old store of the family (the one holding
\* the legacy shell) and a foreign store existed: the first is gone, the
\* second is still there.
C4_Witness ==
  /\ act.pc = "done"
  /\ content[1] = LegacyShell
  /\ "seva-cache-seva-v2.0" \notin DOMAIN storage
  /\ "seva-v1" \in DOMAIN storage

\* ------------------------------------------------------------------
\* C5
\* ------------------------------------------------------------------
\* A handler that found a record has answered with it and has issued one
\* background call and no foreground call, before and after the refresh.
C5_HitState ==
  \A i \in DOMAIN req :
    (req[i].strategy = "cacheFirst" /\ req[i].hit # NoRecord) =>
      /\ req[i].result = Responded(req[i].hit)
      /\ req[i].bgCalls = 1
      /\ req[i].fgCalls = 0
      /\ req[i].pc \in {"revalidating", "put", "done"}

\* The lookup step answers with the record the store holds at that moment.
C5_HitStep ==
  \A i \in DOMAIN req :
    (/\ req[i].pc = "match"
     /\ req'[i].pc # "match"
     /\ req[i].request.method = "GET"
     /\ RecordOf(content, req[i].cache, req[i].request.url) # NoRecord) =>
      /\ req'[i].hit = RecordOf(content, req[i].cache, req[i].request.url)
      /\ req'[i].result = Responded(RecordOf(content, req[i].cache, req[i].request.url))

\* C5: a Cache-First request for which the store holds a record is answered
\* with that record as it is at the lookup, and exactly one network refresh
\* (and no foreground call) is issued for it, whatever the refresh ends in.
C5_CacheFirstHit == [](C5_HitState) /\ [][C5_HitStep]_vars

\* A hit was answered and its refresh has replaced the record since.
C5_Witness ==
  \E i \in DOMAIN req :
    /\ req[i].strategy = "cacheFirst"
    /\ req[i].pc = "done"
    /\ req[i].hit # NoRecord
    /\ RecordOf(content, req[i].cache, req[i].request.url) = req[i].net
    /\ req[i].net # req[i].hit

\* ------------------------------------------------------------------
\* C6
\* ------------------------------------------------------------------
\* C6 as stated: when a Network-First handler has run to its end and its
\* network call succeeded, the store's record for the request is the
\* response that was returned; when the call failed and a record existed,
\* the returned response is that record.
C6_StoreHoldsReturned ==
  \A i \in DOMAIN req :
    (req[i].strategy = "networkFirst" /\ req[i].pc = "done") =>
      /\ (req[i].net # NoRecord /\ IsOk(req[i].net)) =>
           /\ req[i].result = Responded(req[i].net)
           /\ RecordOf(content, req[i].cache, req[i].request.url) = req[i].net
      /\ (req[i].net = NoRecord /\ req[i].hit # NoRecord) =>
           req[i].result = Responded(req[i].hit)

\* What holds of a Network-First handler in every state: the response of the
\* network call is the result; a put is pending only for an ok response to a
\* GET; any other response is in no store; a record found after a failed
\* call is the result.
C6_State ==
  \A i \in DOMAIN req :
    req[i].strategy = "networkFirst" =>
      /\ req[i].net # NoRecord => req[i].result = Responded(req[i].net)
      /\ req[i].pc = "put" =>
           IsOk(req[i].net) /\ req[i].request.method = "GET" /\ req[i].puts = 1
      /\ (req[i].net # NoRecord /\ ~(IsOk(req[i].net) /\ req[i].request.method = "GET")) =>
           /\ req[i].pc = "done"
           /\ \A id \in DOMAIN content :
                RecordOf(content, id, req[i].request.url) # req[i].net
      /\ (req[i].net = NoRecord /\ req[i].hit # NoRecord) =>
           req[i].result = Responded(req[i].hit)

\* The pending put writes the returned response under the request's URL, and
\* the lookup after a failed call returns the record the store holds then.
C6_Step ==
  \A i \in DOMAIN req :
    req[i].strategy = "networkFirst" =>
      /\ (req[i].pc = "put" /\ req'[i].pc = "done") =>
           /\ RecordOf(content', req[i].cache, req[i].request.url) = req[i].result.response
           /\ req'[i].result = req[i].result
      /\ (/\ req[i].pc = "fallback"
          /\ req'[i].pc = "done"
          /\ req[i].request.method = "GET"
          /\ RecordOf(content, req[i].cache, req[i].request.url) # NoRecord) =>
           req'[i].result = Responded(RecordOf(content, req[i].cache, req[i].request.url))

\* C6 as amended: a Network-First handler returns the response of its
\* network call; when that is an ok response to a GET request it issues one
\* cache.put of exactly that response under the request's URL into the
\* store it opened, completed after the response is returned; a response
\* that is not ok or answers a request other than GET is never written; and
\* when the call fails and the store holds a record for the request at the
\* lookup, the returned response is that record.
C6_NetworkFirst == [](C6_State) /\ [][C6_Step]_vars

\* One Network-First handler has stored the ok response it returned, and
\* another, its call failed, has returned the record it found.
C6_Witness ==
  /\ \E i \in DOMAIN req :
       /\ req[i].strategy = "networkFirst"
       /\ req[i].pc = "done"
       /\ IsOk(req[i].net)
       /\ RecordOf(content, req[i].cache, req[i].request.url) = req[i].net
  /\ \E j \in DOMAIN req :
       /\ req[j].strategy = "networkFirst"
       /\ req[j].pc = "done"
       /\ req[j].net = NoRecord
       /\ req[j].hit # NoRecord
       /\ req[j].result = Responded(req[j].hit)

\* ------------------------------------------------------------------
\* C7
\* ------------------------------------------------------------------
\* C7: for a request whose method is not GET no strategy looks a record up
\* and none attempts a store write.
C7_NonGetBypassesCache ==
  \A i \in DOMAIN req :
    req[i].request.method # "GET" => (req[i].lookups = 0 /\ req[i].puts = 0)

\* ------------------------------------------------------------------
\* C8
\* ------------------------------------------------------------------
\* An excluded request has opened no store, looked nothing up, attempted no
\* write, and its answer, if any, is the response of its own network call.
C8_State ==
  \A i \in DOMAIN req :
    (IsApiHost(req[i].request) \/ ~IsHttp(req[i].request)) =>
      /\ req[i].cache = 0
      /\ req[i].hit = NoRecord
      /\ req[i].lookups = 0
      /\ req[i].puts = 0
      /\ req[i].result \in {Pending, NotIntercepted, Rejected, Responded(req[i].net)}
      /\ req[i].result.kind = "response" => req[i].net # NoRecord

\* A step of the handler of an excluded request changes no store.
C8_Step ==
  \A i \in DOMAIN req' :
    (/\ IsApiHost(req'[i].request) \/ ~IsHttp(req'[i].request)
     /\ (i \notin DOMAIN req \/ req[i] # req'[i])) =>
      /\ storage' = storage
      /\ content' = content

\* C8: a request to the API host (hostname containing supabase.co) or with a
\* protocol other than http/https is never answered from a store, and
\* handling it reads no store, writes none and leaves all stores as they are.
C8_ExcludedBypassCache == [](C8_State) /\ [][C8_Step]_vars

\* A request to the API host for a .json path was answered from the network
\* while the store was there.
C8_Witness ==
  \E i \in DOMAIN req :
    /\ IsApiHost(req[i].request)
    /\ req[i].pc = "done"
    /\ req[i].result = Responded(req[i].net)
    /\ IsOk(req[i].net)
    /\ CACHE_NAME \in DOMAIN storage

\* ------------------------------------------------------------------
\* C9
\* ------------------------------------------------------------------
\* C9: a Cache-First request without a stored record whose network call
\* fails is answered with a generated placeholder (image requests) or with a
\* service-unavailable response (all others), and nothing is written.
C9_MissFailureIsAnswered ==
  \A i \in DOMAIN req :
    (/\ req[i].strategy = "cacheFirst"
     /\ req[i].pc = "done"
     /\ req[i].hit = NoRecord
     /\ req[i].net = NoRecord) =>
      /\ req[i].result.kind = "response"
      /\ req[i].request.destination # "image" => req[i].result.response.status = 503
      /\ req[i].puts = 0

\* ------------------------------------------------------------------
\* C10
\* ------------------------------------------------------------------
\* C10: a Network-First navigation request whose network call fails and for
\* whose URL the store has no record is answered with the cached shell
\* document /index.html.
C10_NavigationFallsBackToShell ==
  \A i \in DOMAIN req :
    (/\ req[i].strategy = "networkFirst"
     /\ req[i].request.mode = "navigate"
     /\ req[i].pc = "done"
     /\ req[i].net = NoRecord
     /\ req[i].hit = NoRecord
     /\ RecordOf(content, req[i].cache, ResolveURL("/index.html")) # NoRecord) =>
      /\ req[i].result.kind = "response"
      /\ \E id \in DOMAIN content :
           req[i].result.response = RecordOf(content, id, ResolveURL("/index.html"))

\* ------------------------------------------------------------------
\* C11
\* ------------------------------------------------------------------
\* C11: when a deletion of a stale store has failed during activation, the
\* activation still proceeds: once its deletions have settled, the takeover
\* (clients.claim) and the SW_UPDATED broadcast are done or can still be done.
C11_FailedDeleteDoesNotBlockTakeover ==
  (act.pc = "rejected" /\ act.pending = {}) =>
     \/ clients.claimed /\ clients.updated
     \/ ENABLED ActivateClaim
     \/ ENABLED ActivateNotify

\* ------------------------------------------------------------------
\* C12
\* ------------------------------------------------------------------
\* The CDN assets whose cache.add has settled.
CdnSettled == (1..Len(CDN_ASSETS)) \ install.pending

\* C12: once the core assets are stored, no failure of any subset of the CDN
\* assets aborts the installation: a failure is only ever recorded while the
\* installation is in its CDN step or complete, every CDN asset that settled
\* without failing is stored, when all have settled skipWaiting can be
\* called, and when the installation is complete skipWaiting has been called
\* and the worker is installed.
C12_CdnFailuresDoNotAbortInstall ==
  /\ install.failed # {} => install.pc \in {"cdn", "done"}
  /\ install.pc \in {"cdn", "done"} =>
       \A i \in CdnSettled \ install.failed :
          RecordOf(content, install.cache, ResolveURL(CDN_ASSETS[i])) # NoRecord
  /\ (install.pc = "cdn" /\ install.pending = {}) => ENABLED InstallSkipWaiting
  /\ install.pc = "done" =>
       /\ install.pending = {}
       /\ skipWaiting
       /\ swState \in {"installed", "activating", "activated"}

\* An installation that completed although some, but not all, of the CDN
\* assets failed; the others are stored.
C12_Witness ==
  /\ install.pc = "done"
  /\ skipWaiting
  /\ install.failed # {}
  /\ install.failed # 1..Len(CDN_ASSETS)
  /\ \A i \in (1..Len(CDN_ASSETS)) \ install.failed :
        RecordOf(content, install.cache, ResolveURL(CDN_ASSETS[i])) # NoRecord

\* ------------------------------------------------------------------
\* C13
\* ------------------------------------------------------------------
\* The background refresh of a Cache-First handler is in flight: its fetch
\* or the cache.put that follows it has not settled.
Refreshing(h) ==
  /\ h.strategy = "cacheFirst"
  /\ h.bgCalls = 1
  /\ h.pc \in {"revalidating", "put"}

\* While the background refresh of a Cache-First handler is in flight, the
\* handler has already delivered its response.
C13_State ==
  \A i \in DOMAIN req :
    Refreshing(req[i]) =>
       /\ Finished(req[i])
       /\ req[i].result.kind = "response"

\* No step changes what a handler with a refresh in flight has delivered;
\* a step of the refresh (its fetch or its put settles) changes at most the
\* record of the request's URL in the handler's store, and neither the set
\* of stores nor any other handler.
C13_Step ==
  \A i \in DOMAIN req :
    Refreshing(req[i]) =>
       /\ req'[i].result = req[i].result
       /\ req'[i].pc \in {"revalidating", "put", "done"}
       /\ req'[i] # req[i] =>
            /\ storage' = storage
            /\ \A j \in DOMAIN req : j # i => req'[j] = req[j]
            /\ \A id \in DOMAIN content :
                 \A u \in DOMAIN content[id] \cup DOMAIN content'[id] :
                    (id # req[i].cache \/ u # req[i].request.url) =>
                       RecordOf(content', id, u) = RecordOf(content, id, u)

\* C13: the refresh of a Cache-First hit is detached from the request: the
\* response is delivered while the refresh is still in flight, and the
\* refresh, whatever it ends in, changes only the store's record and never
\* what the caller received.
C13_RevalidationDetached == [](C13_State) /\ [][C13_Step]_vars

\* A refresh ended in a network error after the hit had been delivered: the
\* caller has the stored record, not the error.
C13_Witness ==
  \E i \in DOMAIN req :
    /\ req[i].strategy = "cacheFirst"
    /\ req[i].pc = "done"
    /\ req[i].bgCalls = 1
    /\ req[i].net = NoRecord
    /\ req[i].hit # NoRecord
    /\ req[i].result = Responded(req[i].hit)

\* ------------------------------------------------------------------
\* C14
\* ------------------------------------------------------------------
\* The file extension the fetch handler computes for a request.
FileExtension(request) ==
  ToLowerCase(SplitPop(ParseURL(Chars(request.url)).pathname))

\* C14: a request the handler does not exclude (http or https, not the API
\* host) is routed by its file extension: the cacheFirst extensions to
\* Cache-First, the networkFirst extensions to Network-First, every other
\* extension to Network-with-Fallback, except that a request with a
\* networkOnly extension (api) goes to the network only: it opens no store,
\* looks nothing up and writes nothing.
C14_RoutedByExtension ==
  \A i \in DOMAIN req :
    (IsHttp(req[i].request) /\ ~IsApiHost(req[i].request)) =>
      LET ext == FileExtension(req[i].request) IN
        IF ListIncludes(CACHE_STRATEGIES.cacheFirst, ext)
          THEN req[i].strategy = "cacheFirst"
        ELSE IF ListIncludes(CACHE_STRATEGIES.networkFirst, ext)
          THEN req[i].strategy = "networkFirst"
        ELSE IF ListIncludes(CACHE_STRATEGIES.networkOnly, ext)
          THEN /\ req[i].cache = 0
               /\ req[i].lookups = 0
               /\ req[i].puts = 0
               /\ req[i].hit = NoRecord
        ELSE req[i].strategy = "networkWithCacheFallback"

\* ------------------------------------------------------------------
\* C15
\* ------------------------------------------------------------------
\* C15 as stated: activation schedules for deletion only stores that do not
\* belong to the current generation; a store named after the current
\* generation plus a suffix is retained.
C15_CurrentGenerationRetained ==
  \A n \in act.pending : ~OfCurrentGeneration(n)

\* The activation, when caches.keys() has answered, schedules exactly the
\* stores of the family other than the current one, and a settling deletion removes at most the store it was
\* issued for.
C15_Step ==
  /\ (act.pc = "keys" /\ act'.pc # "keys") =>
        /\ act'.pending = {n \in DOMAIN storage : InSevaFamily(n) /\ n # CACHE_NAME}
        /\ storage' = storage
  /\ (act.pc \notin {"idle", "keys"} /\ act'.pending # act.pending) =>
        /\ act'.pending \subseteq act.pending
        /\ (DOMAIN storage) \ (DOMAIN storage') \subseteq act.pending \ act'.pending

\* C15 as amended: activation deletes exactly the stores whose name starts
\* with seva-cache- and is not CACHE_NAME itself; a store named CACHE_NAME
\* plus a suffix is deleted like any other, the current store and the stores
\* under other names are retained.
C15_DeletesFamilyButCurrent == [][C15_Step]_vars

\* Activation has scheduled the images store of the current generation's
\* namespace for deletion, and neither the current store nor a store under a
\* foreign name.
C15_Witness ==
  /\ act.pc = "deleting"
  /\ "seva-cache-seva-v2.1-images" \in act.pending
  /\ OfCurrentGeneration("seva-cache-seva-v2.1-images")
  /\ CACHE_NAME \in DOMAIN storage
  /\ CACHE_NAME \notin act.pending
  /\ "seva-v1" \in DOMAIN storage
  /\ "seva-v1" \notin act.pending

\* ------------------------------------------------------------------
\* C16
\* ------------------------------------------------------------------
\* No handler has issued more than one foreground and one background call.
C16_State ==
  \A i \in DOMAIN req :
    /\ req[i].fgCalls \in {0, 1}
    /\ req[i].bgCalls \in {0, 1}

\* A handler issues a call only when it has issued none of that kind, and
\* none at all once a call of its has settled (the catch blocks and the end
\* of the handler call the network no more).
C16_Step ==
  \A i \in DOMAIN req :
    /\ req'[i].fgCalls >= req[i].fgCalls
    /\ req'[i].bgCalls >= req[i].bgCalls
    /\ req'[i].fgCalls > req[i].fgCalls => req[i].fgCalls = 0
    /\ req'[i].bgCalls > req[i].bgCalls => req[i].bgCalls = 0
    /\ req[i].pc \in {"put", "fallback", "shell", "done"} =>
          /\ req'[i].fgCalls = req[i].fgCalls
          /\ req'[i].bgCalls = req[i].bgCalls

\* C16: the handling of one request calls the network at most once in the
\* foreground and at most once in the background, and after a call has
\* failed the handler calls the network no more.
C16_AtMostOneCallEach == [](C16_State) /\ [][C16_Step]_vars

\* A Network-First request whose call failed and for which the store had
\* nothing: it was rejected after that single call.
C16_Witness ==
  \E i \in DOMAIN req :
    /\ req[i].strategy = "networkFirst"
    /\ req[i].pc = "done"
    /\ req[i].result = Rejected
    /\ req[i].lookups = 1
    /\ req[i].fgCalls = 1
    /\ req[i].bgCalls = 0

\* ------------------------------------------------------------------
\* C17
\* ------------------------------------------------------------------
\* The clients are claimed only when no deletion is outstanding and none has
\* failed, they are notified only when claimed, and while they are being
\* claimed and notified no store scheduled by the activation is left.
C17_State ==
  /\ act.pc \in {"claimed", "done"} <=> clients.claimed
  /\ act.pc = "done" <=> clients.updated
  /\ clients.claimed => act.pending = {}
  /\ clients.updated => clients.claimed

\* The takeover is the step after the last deletion, the broadcast the step
\* after the takeover, and at the moment of either no store of the family
\* other than the current one exists.
C17_Step ==
  /\ (~clients.claimed /\ clients'.claimed) =>
        /\ act.pc = "deleting"
        /\ act.pending = {}
        /\ ~clients'.updated
        /\ \A n \in DOMAIN storage : InSevaFamily(n) => n = CACHE_NAME
  /\ (~clients.updated /\ clients'.updated) =>
        /\ clients.claimed
        /\ act.pc = "claimed"
        /\ \A n \in DOMAIN storage : InSevaFamily(n) => n = CACHE_NAME

\* C17: clients.claim is called only after every deletion the activation
\* issued has completed, SW_UPDATED is posted only after clients.claim, and
\* no client is notified while a store scheduled for deletion still exists.
C17_ActivationOrder == [](C17_State) /\ [][C17_Step]_vars

\* The clients were notified after two old stores had been deleted.
C17_Witness ==
  /\ clients.claimed
  /\ clients.updated
  /\ content[1] = LegacyShell
  /\ "seva-cache-seva-v2.0" \notin DOMAIN storage
  /\ "seva-cache-seva-v2.1-images" \notin DOMAIN storage
  /\ CACHE_NAME \in DOMAIN storage
  /\ msg = << >>

\* ------------------------------------------------------------------
\* C18
\* ------------------------------------------------------------------
\* C18: a Network-with-Fallback handler whose network call failed ends with
\* the stored record when there is one; without one, a navigation request
\* ends with a response object (the application shell or a generic failure
\* response), never with an absent value.
C18_FallbackChainEndsInResponse ==
  \A i \in DOMAIN req :
    (/\ req[i].strategy = "networkWithCacheFallback"
     /\ req[i].pc = "done"
     /\ req[i].net = NoRecord) =>
       /\ req[i].hit # NoRecord => req[i].result = Responded(req[i].hit)
       /\ (req[i].hit = NoRecord /\ req[i].request.mode = "navigate") =>
             req[i].result.kind = "response"

\* ------------------------------------------------------------------
\* C19
\* ------------------------------------------------------------------
\* No write of a fetch handler, foreground or background, replaces a record
\* by the response of an earlier call.
C19_NoRegressStep ==
  \A i \in DOMAIN req :
    (req[i].pc = "put" /\ req'[i].pc = "done") =>
       RecordOf(content', req[i].cache, req[i].request.url).seq
          >= RecordOf(content, req[i].cache, req[i].request.url).seq

\* C19 as stated: once a store holds the response of a network call, no
\* later write replaces it with the response of a call issued earlier.
C19_FreshnessNeverRegresses == [][C19_NoRegressStep]_vars

\* A write of a fetch handler, foreground or background, leaves the writer's
\* own response in the store whatever was there before; a record that
\* changes becomes the ok response of a call that was issued for its URL.
C19_LastWriteStep ==
  /\ \A i \in DOMAIN req :
       (req[i].pc = "put" /\ req'[i].pc = "done") =>
          /\ IsOk(req[i].net)
          /\ RecordOf(content', req[i].cache, req[i].request.url) = req[i].net
  /\ \A id \in DOMAIN content :
       \A u \in DOMAIN content'[id] :
         RecordOf(content', id, u) # RecordOf(content, id, u) =>
            /\ IsOk(RecordOf(content', id, u))
            /\ RecordOf(content', id, u).seq \in 1..netSeq[u]

\* C19 as amended: writes to one key resolve last-write-wins. Every write
\* replaces the record with the writer's own response, so the record is
\* always the ok response of a call issued for that URL, but it is the one
\* whose write completed last, which may have been issued first.
C19_LastWriteWins == [][C19_LastWriteStep]_vars

\* A handler stored the response of its call and the store now holds the
\* response of a call issued before it.
C19_Witness ==
  \E i \in DOMAIN req :
    /\ req[i].pc = "done"
    /\ req[i].puts = 1
    /\ IsOk(req[i].net)
    /\ RecordOf(content, req[i].cache, req[i].request.url) # NoRecord
    /\ RecordOf(content, req[i].cache, req[i].request.url).seq < req[i].net.seq

\* ------------------------------------------------------------------
\* C20
\* ------------------------------------------------------------------
\* A step that removes a store name is a settling deletion of the activation
\* or of a CLEAR_CACHE message.
DeletionStep ==
  \/ act.pc \in {"deleting", "rejected"} /\ act'.pending # act.pending
  \/ \E j \in DOMAIN msg :
        /\ msg[j].type = "CLEAR_CACHE"
        /\ msg[j].pc = "clearing"
        /\ msg'[j].pending # msg[j].pending

\* The only name a step adds is CACHE_NAME, bound to a new cache object; the
\* names that stay keep their object; a name goes only in a deletion step;
\* no record is ever removed; and a cache object that is written is one that
\* was created for CACHE_NAME, never one of the stores found at start.
C20_Step ==
  /\ (DOMAIN storage') \ (DOMAIN storage) \subseteq {CACHE_NAME}
  /\ \A n \in (DOMAIN storage') \ (DOMAIN storage) :
        storage'[n] = nextId /\ nextId' = nextId + 1
  /\ \A n \in (DOMAIN storage') \cap (DOMAIN storage) : storage'[n] = storage[n]
  /\ (DOMAIN storage) \ (DOMAIN storage') # {} => DeletionStep
  /\ \A id \in DOMAIN content :
        /\ id \in DOMAIN content'
        /\ DOMAIN content[id] \subseteq DOMAIN content'[id]
        /\ content'[id] # content[id] => id > Len(LegacyNames)
  /\ \A id \in (DOMAIN content') \ (DOMAIN content) :
        id = nextId /\ storage'[CACHE_NAME] = id

\* C20: every store that install, the fetch strategies, the background
\* refresh, the periodic update and CACHE_URLS create or write is the store
\* named CACHE_NAME: the set of store names gains no other name, no record
\* is removed, and a store disappears only in a deletion of the activation
\* or of CLEAR_CACHE.
C20_OnlyCurrentStoreWritten == [][C20_Step]_vars

\* The current store was deleted by CLEAR_CACHE and created anew, holds
\* records again, and the stores found at start were not written.
C20_Witness ==
  /\ CACHE_NAME \in DOMAIN storage
  /\ storage[CACHE_NAME] > Len(LegacyNames) + 1
  /\ content[storage[CACHE_NAME]] # EmptyCache
  /\ content[2] = EmptyCache
  /\ content[3] = EmptyCache
  /\ DOMAIN storage \subseteq {CACHE_NAME} \cup {LegacyNames[i] : i \in 1..Len(LegacyNames)}

====
